---- MODULE Spec2Model ----
(***************************************************************************)
(* sway-window-nav: one run of main() of src/sway-window-nav/src/main.rs   *)
(* as a state machine.  The release profile is modelled: dbg_println!,     *)
(* dbg_dbg! and debug_assert! compile to nothing (main.rs:12-15, 21-24).   *)
(*                                                                         *)
(* Rust values are modelled as follows.                                    *)
(*   Option<T>   a sequence: <<>> is None, <<v>> is Some(v)                *)
(*   Vec<T>      a sequence; Vec index i is sequence index i + 1           *)
(*   Node        a record; the Nodes built by Node::from live in the       *)
(*               arena `nodes` (id |-> Node) and a Vec<Node> or an         *)
(*               Option<Node> holds the ids of its Nodes.  Moving a Node   *)
(*               moves its id; the arena itself never changes.             *)
(*   String      format!() output is the tuple of its pieces               *)
(*                                                                         *)
(* Two parts of the snapshot are drawn when main() first reads them, not   *)
(* when get_tree() returns: the contents of the active workspace           *)
(* (main.rs:198) and the `focused` flags of its nodes (main.rs:254, the    *)
(* only place that reads them).  The flags are the set `focused` of the    *)
(* ids whose flag is set, not a field of the node records.                 *)
(*                                                                         *)
(* sway-focus-switcheroo: the daemon started by listen() of                *)
(* src/sway-focus-switcheroo/src/main.rs, as two threads, the event loop   *)
(* and the socket server, that share the atomic prev_window.  One atomic   *)
(* operation is one step.  A run of one program leaves the variables of    *)
(* the other at their initial values.                                      *)
(***************************************************************************)
EXTENDS Integers, Sequences, FiniteSets, TLC

\* Bounds of the model.
MaxNodes == 3       \* containers and windows below the active workspace
MaxX == 1           \* rect.x ranges over 0..MaxX
MaxY == 1           \* rect.y ranges over 0..MaxY
MaxDeco == 1        \* deco_rect.x and deco_rect.y range over 0..MaxDeco
MaxOutputs == 2     \* outputs below the root
MaxWindows == 3     \* window ids the daemon's events carry
MaxEvents == 4      \* window events the daemon's event loop handles
MaxRequests == 2    \* `prev` requests the daemon's socket server answers

VARIABLES
    pc,             \* position of main()
    result,         \* <<>> while running, <<"Ok">> or <<error>> at exit
    args,           \* env::args() without the executable name
    cmd,            \* Option<Command>
    cmd_arg,        \* Option<CommandArgument>
    tree_node,      \* `node` of main.rs:186-198, an Option<swayipc::Node>
    workspace,      \* `workspace` of main.rs:198: the raw subtree, id |-> swayipc::Node
    nodes,          \* arena of the Nodes made by Node::from, id |-> Node
    node,           \* `node` of main.rs:203, an Option<Node>
    stack,          \* `stack` of main.rs:204, a Vec<Vec<Node>>
    windows,        \* `windows` of main.rs:206, a Vec<Node>
    focused,        \* the ids of the Nodes whose `focused` is true
    focused_idx,    \* Option<usize>
    next_idx,       \* Option<usize>
    cmd_msg,        \* Option<String>
    sent            \* the command strings handed to Connection::run_command

\* sway-focus-switcheroo, the daemon of src/sway-focus-switcheroo/src/main.rs.
VARIABLES
    listen_pc,      \* position of listen(), the thread of the event loop
    server_pc,      \* position of cmd_server(), the thread of the socket server
    prev_window,    \* the shared AtomicI64
    curr_window,    \* `curr_window` of listen()
    event,          \* Option: the container id of the event being handled
    loaded,         \* Option<i64>: the value the server loaded for the request at hand
    focus_cmds,     \* the ids of the `[con_id=..] focus` commands the server has run
    first_window,   \* history: what focused_window() gave at main.rs:59, or -1
    handled         \* history: the window events whose atomic operation has run

daemon == <<listen_pc, server_pc, prev_window, curr_window, event, loaded,
            focus_cmds, first_window, handled>>

vars == <<pc, result, args, cmd, cmd_arg, tree_node, workspace, nodes, node,
          stack, windows, focused, focused_idx, next_idx, cmd_msg, sent,
          listen_pc, server_pc, prev_window, curr_window, event, loaded,
          focus_cmds, first_window, handled>>

Last(s) == s[Len(s)]
Front(s) == SubSeq(s, 1, Len(s) - 1)
Range(s) == {s[i] : i \in 1..Len(s)}
Empty == [k \in {} |-> k]

\* Sequences over S of length at most 2 without repetition.
ShortSeqs(S) ==
    {<<>>} \cup {<<a>> : a \in S} \cup {q \in S \X S : q[1] # q[2]}

\* The increasing sequence of the elements of a finite set of integers.
RECURSIVE Ascending(_)
Ascending(S) ==
    IF S = {} THEN <<>>
    ELSE LET m == CHOOSE m \in S : \A o \in S : m <= o
         IN <<m>> \o Ascending(S \ {m})

----------------------------------------------------------------------------
\* Ids of the snapshot: the root, the outputs, the active workspace, and the
\* containers and windows below it.  StaleId is an id no child carries.
OutputIds == 1..MaxOutputs
RootId == MaxOutputs + 1
StaleId == MaxOutputs + 2
WsId == MaxOutputs + 3
WinIds(n) == (WsId + 1)..(WsId + n)

\* cmp::Ordering and the methods of it the comparator uses.
Reverse(o) == CASE o = "Less" -> "Greater" [] o = "Greater" -> "Less" [] OTHER -> "Equal"
ThenWith(o, p) == IF o = "Equal" THEN p ELSE o
Cmp(a, b) == IF a < b THEN "Less" ELSE IF a = b THEN "Equal" ELSE "Greater"

Coord_asc_above_or_right_of(a, b) ==
    IF a = b THEN "Equal"
    ELSE IF a.y < b.y \/ a.x < b.x THEN "Less"
    ELSE "Greater"

\* Node::asc_above_or_right_of with the decoration tie-break ascending.
Node_asc_deco_ascending(a, b) ==
    ThenWith(Reverse(Coord_asc_above_or_right_of(a.coords, b.coords)),
             Cmp(a.deco_coords.x, b.deco_coords.x))

\* Node::asc_above_or_right_of without the reverse() of the position order.
Node_asc_not_reversed(a, b) ==
    ThenWith(Coord_asc_above_or_right_of(a.coords, b.coords),
             Cmp(b.deco_coords.x, a.deco_coords.x))

Node_asc_above_or_right_of(a, b) ==
    ThenWith(Reverse(Coord_asc_above_or_right_of(a.coords, b.coords)),
             Cmp(b.deco_coords.x, a.deco_coords.x))

\* slice::sort_unstable_by(compare) on a slice of at most 20 elements: the
\* insertion sort of core::slice::sort, with is_less(a, b) = (compare(a, b) = Less).
\* N is the arena, v a Vec of ids.
is_less(N, a, b) == Node_asc_above_or_right_of(N[a], N[b]) = "Less"

RECURSIVE insert_tail(_, _, _)
insert_tail(N, v, tmp) ==
    IF v = <<>> THEN <<tmp>>
    ELSE IF is_less(N, tmp, Last(v))
         THEN Append(insert_tail(N, Front(v), tmp), Last(v))
         ELSE Append(v, tmp)

RECURSIVE insertion_sort(_, _, _)
insertion_sort(N, v, i) ==
    IF i = 0 THEN <<>> ELSE insert_tail(N, insertion_sort(N, v, i - 1), v[i])

sort_unstable_by(N, v) == insertion_sort(N, v, Len(v))

\* is_node_leaf!() that takes every node for a branch.
is_node_leaf_never(n) == n.nodes # n.nodes

\* is_node_leaf!(n)
is_node_leaf(n) == n.nodes = <<>>

\* Node::from without the chain() of the floating nodes.
Node_from_tiled_only(n) ==
    [id |-> n.id,
     coords |-> [x |-> n.rect.x,
                 y |-> IF is_node_leaf(n) THEN n.rect.y ELSE n.rect.y - n.deco_rect.y],
     deco_coords |-> [x |-> n.deco_rect.x, y |-> n.deco_rect.y],
     nodes |-> n.nodes]

\* impl From<swayipc::Node> for Node, for the raw node n.
Node_from(n) ==
    [id |-> n.id,
     coords |-> [x |-> n.rect.x,
                 y |-> IF is_node_leaf(n) THEN n.rect.y ELSE n.rect.y - n.deco_rect.y],
     deco_coords |-> [x |-> n.deco_rect.x, y |-> n.deco_rect.y],
     nodes |-> n.nodes \o n.floating_nodes]

----------------------------------------------------------------------------
\* main.rs:163, env::args().take(3) after the executable name: at most two words.
Words == {"focus", "move", "next", "prev"}
ArgLists == {<<>>} \cup {<<a>> : a \in Words} \cup {<<a, b>> : a, b \in Words}

Init ==
    /\ pc = "args"
    /\ result = <<>>
    /\ args \in ArgLists
    /\ cmd = <<>>
    /\ cmd_arg = <<>>
    /\ tree_node = <<>>
    /\ workspace = Empty
    /\ nodes = Empty
    /\ node = <<>>
    /\ stack = <<>>
    /\ windows = <<>>
    /\ focused = {}
    /\ focused_idx = <<>>
    /\ next_idx = <<>>
    /\ cmd_msg = <<>>
    /\ sent = <<>>
    /\ listen_pc = "off"
    /\ server_pc = "off"
    /\ prev_window = -1
    /\ curr_window = -1
    /\ event = <<>>
    /\ loaded = <<>>
    /\ focus_cmds = <<>>
    /\ first_window = -1
    /\ handled = <<>>

\* The run ends with the error e: "usage" is one of the three bail!() messages
\* of main.rs:168-179, "swayipc::Error" an error of the IPC client passed on by
\* `?`, "panic" a failed assert!() or unreachable!(); every other error is the
\* text of its anyhow!().
Fail(e) == pc' = "exit" /\ result' = <<e>>

\* main.rs:163-180.  take(3) keeps the executable name and two arguments.
ParseArgs ==
    /\ pc = "args"
    /\ IF Len(args) < 2 THEN
            Fail("usage") /\ UNCHANGED <<cmd, cmd_arg>>
       ELSE IF args[1] \notin {"focus", "move"} THEN
            Fail("usage") /\ UNCHANGED <<cmd, cmd_arg>>
       ELSE IF args[2] \notin {"next", "prev"} THEN
            /\ Fail("usage")
            /\ cmd' = <<IF args[1] = "focus" THEN "Focus" ELSE "Move">>
            /\ UNCHANGED cmd_arg
       ELSE /\ cmd' = <<IF args[1] = "focus" THEN "Focus" ELSE "Move">>
            /\ cmd_arg' = <<IF args[2] = "next" THEN "Next" ELSE "Prev">>
            /\ pc' = "connect"
            /\ UNCHANGED result
    /\ UNCHANGED <<args, tree_node, workspace, nodes, node, stack, windows,
                   focused, focused_idx, next_idx, cmd_msg, sent>>
    /\ UNCHANGED daemon

\* main.rs:185.  Connection::new() succeeds or fails.
Connect ==
    /\ pc = "connect"
    /\ \E ok \in BOOLEAN :
        IF ok THEN pc' = "get_tree" /\ UNCHANGED result
        ELSE Fail("swayipc::Error")
    /\ UNCHANGED <<args, cmd, cmd_arg, tree_node, workspace, nodes, node, stack,
                   windows, focused, focused_idx, next_idx, cmd_msg, sent>>
    /\ UNCHANGED daemon

\* The raw nodes above the workspace: an output with at most the active
\* workspace below it, and the root with its outputs.  `focus` is any short
\* list of ids of children or of StaleId.
RawWorkspaceStub ==
    [id |-> WsId, node_type |-> "Workspace", focus |-> <<>>, nodes |-> <<>>]
RawOutputs(id) ==
    {[id |-> id, node_type |-> "Output", focus |-> f, nodes |-> c] :
        f \in ShortSeqs({WsId, StaleId}), c \in {<<>>, <<RawWorkspaceStub>>}}
RECURSIVE RawOutputLists(_)
RawOutputLists(k) ==
    IF k = 0 THEN {<<>>}
    ELSE {Append(l, o) : l \in RawOutputLists(k - 1), o \in RawOutputs(k)}
RawRoots ==
    {[id |-> RootId, node_type |-> "Root", focus |-> f, nodes |-> c] :
        f \in ShortSeqs(OutputIds \cup {StaleId}),
        c \in UNION {RawOutputLists(k) : k \in 0..MaxOutputs}}

\* main.rs:186-187.  get_tree() fails, or returns the snapshot's root.
GetTree ==
    /\ pc = "get_tree"
    /\ \/ Fail("swayipc::Error") /\ UNCHANGED tree_node
       \/ /\ tree_node' \in {<<r>> : r \in RawRoots}
          /\ pc' = "locate"
          /\ UNCHANGED result
    /\ UNCHANGED <<args, cmd, cmd_arg, workspace, nodes, node, stack, windows,
                   focused, focused_idx, next_idx, cmd_msg, sent>>
    /\ UNCHANGED daemon

\* The hop with a fallback: when no child carries the focus id, the first
\* child is taken.
Hop_falls_back ==
    /\ pc = "locate"
    /\ tree_node[1].node_type # "Workspace"
    /\ LET n == tree_node[1]
           found == {i \in 1..Len(n.nodes) : n.nodes[i].id = n.focus[1]}
       IN IF n.focus = <<>> THEN
               Fail("Could not find a focused output or workspace.") /\ UNCHANGED tree_node
          ELSE IF found = {} /\ n.nodes = <<>> THEN
               Fail("Could not find the focused workspace.") /\ UNCHANGED tree_node
          ELSE /\ tree_node' = <<n.nodes[IF found = {} THEN 1
                                         ELSE CHOOSE i \in found : \A j \in found : i <= j]>>
               /\ UNCHANGED <<pc, result>>
    /\ UNCHANGED <<args, cmd, cmd_arg, workspace, nodes, node, stack, windows,
                   focused, focused_idx, next_idx, cmd_msg, sent>>
    /\ UNCHANGED daemon

\* main.rs:189-197, one iteration of the while loop.
Hop ==
    /\ pc = "locate"
    /\ tree_node[1].node_type # "Workspace"
    /\ LET n == tree_node[1]
           found == {i \in 1..Len(n.nodes) : n.nodes[i].id = n.focus[1]}
       IN IF n.focus = <<>> THEN
               Fail("Could not find a focused output or workspace.") /\ UNCHANGED tree_node
          ELSE IF found = {} THEN
               Fail("Could not find the focused workspace.") /\ UNCHANGED tree_node
          ELSE /\ tree_node' = <<n.nodes[CHOOSE i \in found : \A j \in found : i <= j]>>
               /\ UNCHANGED <<pc, result>>
    /\ UNCHANGED <<args, cmd, cmd_arg, workspace, nodes, node, stack, windows,
                   focused, focused_idx, next_idx, cmd_msg, sent>>
    /\ UNCHANGED daemon

\* The subtree of the active workspace in the snapshot: n nodes below the
\* workspace, parent[k] the parent of k, fl the children of the workspace that
\* are in its floating_nodes.  A list of children is in ascending id order.
\* Sway keeps floating containers in the workspace's floating_nodes only.  The
\* rect and deco_rect of the workspace and the deco_rect.y of a node without
\* children are never read by a comparison, and are 0.
Parents(n) ==
    {p \in [WinIds(n) -> {WsId} \cup WinIds(n)] : \A k \in WinIds(n) : p[k] < k}
Branches(n, parent) == {parent[k] : k \in WinIds(n)} \ {WsId}
RawSubtree(n, parent, fl, rx, ry, dx, dy) ==
    [k \in {WsId} \cup WinIds(n) |->
        [id |-> k,
         rect |-> IF k = WsId THEN [x |-> 0, y |-> 0] ELSE [x |-> rx[k], y |-> ry[k]],
         deco_rect |-> [x |-> IF k = WsId THEN 0 ELSE dx[k],
                        y |-> IF k \in DOMAIN dy THEN dy[k] ELSE 0],
         nodes |-> Ascending({c \in WinIds(n) : parent[c] = k /\ c \notin fl}),
         floating_nodes |-> Ascending({c \in WinIds(n) : parent[c] = k /\ c \in fl})]]

\* main.rs:198, the exit of the while loop: `let workspace = node`.  The
\* workspace holds any subtree of at most MaxNodes nodes.
TakeWorkspace ==
    /\ pc = "locate"
    /\ tree_node[1].node_type = "Workspace"
    /\ \E n \in 0..MaxNodes :
       \E parent \in Parents(n) :
       \E fl \in SUBSET {k \in WinIds(n) : parent[k] = WsId} :
       \E rx \in [WinIds(n) -> 0..MaxX], ry \in [WinIds(n) -> 0..MaxY] :
       \E dx \in [WinIds(n) -> 0..MaxDeco], dy \in [Branches(n, parent) -> 0..MaxDeco] :
            workspace' = RawSubtree(n, parent, fl, rx, ry, dx, dy)
    /\ tree_node' = <<>>
    /\ pc' = "convert"
    /\ UNCHANGED <<result, args, cmd, cmd_arg, nodes, node, stack, windows,
                   focused, focused_idx, next_idx, cmd_msg, sent>>
    /\ UNCHANGED daemon

\* main.rs:203-206.  Node::from converts the workspace and, recursively, every
\* node below it.
Convert ==
    /\ pc = "convert"
    /\ nodes' = [k \in DOMAIN workspace |-> Node_from(workspace[k])]
    /\ node' = <<WsId>>
    /\ stack' = <<>>
    /\ windows' = <<>>
    /\ workspace' = Empty
    /\ pc' = "traverse"
    /\ UNCHANGED <<result, args, cmd, cmd_arg, tree_node, focused, focused_idx,
                   next_idx, cmd_msg, sent>>
    /\ UNCHANGED daemon

\* The iteration with an exhausted frame pushed back instead of dropped.
LoopIteration_keeps_frame ==
    /\ pc = "traverse"
    /\ node # <<>> \/ stack # <<>>
    /\ IF node # <<>> THEN
            LET n == nodes[node[1]]
            IN /\ node' = <<>>
               /\ IF is_node_leaf(n)
                  THEN windows' = Append(windows, n.id) /\ UNCHANGED stack
                  ELSE stack' = Append(stack, sort_unstable_by(nodes, n.nodes))
                       /\ UNCHANGED windows
               /\ UNCHANGED <<pc, result>>
       ELSE IF stack # <<>> THEN
            LET v == Last(stack)
            IN IF v = <<>> THEN
                    /\ stack' = Append(Front(stack), v)
                    /\ IF windows # <<>> THEN UNCHANGED <<pc, result>> ELSE Fail("panic")
                    /\ UNCHANGED <<node, windows>>
               ELSE /\ node' = <<Last(v)>>
                    /\ stack' = Append(Front(stack), Front(v))
                    /\ UNCHANGED <<pc, result, windows>>
       ELSE Fail("panic") /\ UNCHANGED <<node, stack, windows>>
    /\ UNCHANGED <<args, cmd, cmd_arg, tree_node, workspace, nodes, focused,
                   focused_idx, next_idx, cmd_msg, sent>>
    /\ UNCHANGED daemon

\* main.rs:208-239, one iteration of the while loop.
LoopIteration ==
    /\ pc = "traverse"
    /\ node # <<>> \/ stack # <<>>
    /\ IF node # <<>> THEN
            LET n == nodes[node[1]]
            IN /\ node' = <<>>
               /\ IF is_node_leaf(n)
                  THEN windows' = Append(windows, n.id) /\ UNCHANGED stack
                  ELSE stack' = Append(stack, sort_unstable_by(nodes, n.nodes))
                       /\ UNCHANGED windows
               /\ UNCHANGED <<pc, result>>
       ELSE IF stack # <<>> THEN
            LET v == Last(stack)
            IN IF v = <<>> THEN
                    /\ stack' = Front(stack)
                    /\ IF windows # <<>> THEN UNCHANGED <<pc, result>> ELSE Fail("panic")
                    /\ UNCHANGED <<node, windows>>
               ELSE /\ node' = <<Last(v)>>
                    /\ stack' = Append(Front(stack), Front(v))
                    /\ UNCHANGED <<pc, result, windows>>
       ELSE Fail("panic") /\ UNCHANGED <<node, stack, windows>>
    /\ UNCHANGED <<args, cmd, cmd_arg, tree_node, workspace, nodes, focused,
                   focused_idx, next_idx, cmd_msg, sent>>
    /\ UNCHANGED daemon

\* position() followed by a default: the first window when none is focused.
position_or_first(f, w) ==
    LET hits == {i \in 1..Len(w) : w[i] \in f}
    IN IF hits = {} THEN <<0>>
       ELSE <<(CHOOSE i \in hits : \A j \in hits : i <= j) - 1>>

\* main.rs:208-239 as a function: the Vec `windows` the loop builds from the
\* Node k of the arena N.  A leaf is pushed; the children of a branch are
\* sorted and visited from the back of the sorted Vec.
RECURSIVE Traverse(_, _)
RECURSIVE TraverseFrame(_, _)
Traverse(N, k) ==
    IF is_node_leaf(N[k]) THEN <<k>>
    ELSE TraverseFrame(N, sort_unstable_by(N, N[k].nodes))
TraverseFrame(N, v) ==
    IF v = <<>> THEN <<>>
    ELSE Traverse(N, Last(v)) \o TraverseFrame(N, Front(v))

\* main.rs:254-255, windows.iter().position(|x| x.focused) as an Option<usize>.
position_focused(f, w) ==
    LET hits == {i \in 1..Len(w) : w[i] \in f}
    IN IF hits = {} THEN <<>>
       ELSE <<(CHOOSE i \in hits : \A j \in hits : i <= j) - 1>>

\* The index computation with Next wrapping one window late.
next_idx_late_wrap(arg, len, idx) ==
    IF arg = "Next"
    THEN IF len > idx THEN idx + 1 ELSE 0
    ELSE IF idx > 0 THEN idx - 1 ELSE len - 1

\* The index computation with Prev stopping at the first window.
next_idx_prev_stops(arg, len, idx) ==
    IF arg = "Next"
    THEN IF len > idx + 1 THEN idx + 1 ELSE 0
    ELSE IF idx > 0 THEN idx - 1 ELSE 0

\* main.rs:258-273, the index of the target in a Vec of length len.
next_idx_of(arg, len, idx) ==
    IF arg = "Next"
    THEN IF len > idx + 1 THEN idx + 1 ELSE 0
    ELSE IF idx > 0 THEN idx - 1 ELSE len - 1

\* The two format!() strings with the id of the focused window's successor
\* swapped between the actions.
cmd_msg_swapped(c, id) ==
    IF c = "Move" THEN <<"[con_id=", id, "] focus">>
    ELSE <<"swap container with con_id ", id>>

\* main.rs:275-278, the two format!() strings.
cmd_msg_of(c, id) ==
    IF c = "Focus" THEN <<"[con_id=", id, "] focus">>
    ELSE <<"swap container with con_id ", id>>

\* main.rs:254-278, after the loop has ended.  At most one node of the
\* workspace is focused.
BuildCommand ==
    /\ pc = "traverse"
    /\ node = <<>> /\ stack = <<>>
    /\ focused' \in {{}} \cup {{k} : k \in DOMAIN nodes}
    /\ LET idx == position_focused(focused', windows)
           nxt == next_idx_of(cmd_arg[1], Len(windows), idx[1])
       IN IF idx = <<>> THEN
               /\ Fail("Could not find the focused window")
               /\ UNCHANGED <<focused_idx, next_idx, cmd_msg>>
          ELSE IF nxt \notin 0..(Len(windows) - 1) THEN
               /\ Fail("panic")
               /\ focused_idx' = idx
               /\ next_idx' = <<nxt>>
               /\ UNCHANGED cmd_msg
          ELSE /\ focused_idx' = idx
               /\ next_idx' = <<nxt>>
               /\ cmd_msg' = <<cmd_msg_of(cmd[1], nodes[windows[nxt + 1]].id)>>
               /\ pc' = "run_command"
               /\ UNCHANGED result
    /\ UNCHANGED <<args, cmd, cmd_arg, tree_node, workspace, nodes, node, stack,
                   windows, sent>>
    /\ UNCHANGED daemon

\* run_command() with one retry after a failure.
RunCommand_retries ==
    /\ pc = "run_command"
    /\ pc' = "exit"
    /\ \E ok, again \in BOOLEAN :
        /\ sent' = IF ok THEN Append(sent, cmd_msg[1])
                   ELSE Append(Append(sent, cmd_msg[1]), cmd_msg[1])
        /\ result' = <<IF ok \/ again THEN "Ok" ELSE "swayipc::Error">>
    /\ UNCHANGED <<args, cmd, cmd_arg, tree_node, workspace, nodes, node, stack,
                   windows, focused, focused_idx, next_idx, cmd_msg>>
    /\ UNCHANGED daemon

\* main.rs:281-283.  run_command() is handed the string once; it succeeds or
\* fails, and main returns.
RunCommand ==
    /\ pc = "run_command"
    /\ sent' = Append(sent, cmd_msg[1])
    /\ pc' = "exit"
    /\ \E ok \in BOOLEAN : result' = <<IF ok THEN "Ok" ELSE "swayipc::Error">>
    /\ UNCHANGED <<args, cmd, cmd_arg, tree_node, workspace, nodes, node, stack,
                   windows, focused, focused_idx, next_idx, cmd_msg>>
    /\ UNCHANGED daemon

\* main.rs:198 for a workspace that holds a row: up to MaxNodes windows, all
\* children of the workspace, at one y and at x in 0..MaxNodes-1.
TakeWorkspaceRow ==
    /\ pc = "locate"
    /\ tree_node[1].node_type = "Workspace"
    /\ \E n \in 0..MaxNodes :
       \E fl \in SUBSET WinIds(n) :
       \E rx \in [WinIds(n) -> 0..(MaxNodes - 1)], y \in 0..MaxY :
       \E dx \in [WinIds(n) -> 0..MaxDeco] :
            workspace' = RawSubtree(n, [k \in WinIds(n) |-> WsId], fl, rx,
                                    [k \in WinIds(n) |-> y], dx, Empty)
    /\ tree_node' = <<>>
    /\ pc' = "convert"
    /\ UNCHANGED <<result, args, cmd, cmd_arg, nodes, node, stack, windows,
                   focused, focused_idx, next_idx, cmd_msg, sent>>
    /\ UNCHANGED daemon

Next ==
    \/ ParseArgs
    \/ Connect
    \/ GetTree
    \/ Hop
    \/ TakeWorkspace
    \/ Convert
    \/ LoopIteration
    \/ BuildCommand
    \/ RunCommand

Spec == Init /\ [][Next]_vars

\* The run of a process that, once in the traversal loop, is scheduled until
\* the loop and the statements after it have run.  The argument lists are one
\* for each way out of main.rs:163-180; the loop does not read them.
InitLive ==
    /\ Init
    /\ args \in {<<>>, <<"next", "focus">>, <<"focus", "focus">>, <<"focus", "next">>}
LiveSpec ==
    InitLive /\ [][Next]_vars /\ WF_vars(LoopIteration) /\ WF_vars(BuildCommand)

\* The same run on a workspace that holds a row of windows.
NextRow ==
    \/ ParseArgs
    \/ Connect
    \/ GetTree
    \/ Hop
    \/ TakeWorkspaceRow
    \/ Convert
    \/ LoopIteration
    \/ BuildCommand
    \/ RunCommand

SpecRow == Init /\ [][NextRow]_vars

----------------------------------------------------------------------------
\* sway-focus-switcheroo, src/sway-focus-switcheroo/src/main.rs.

\* The container ids of the window events.
Windows == 1..MaxWindows

\* The windows whose Close event is in the history h.
ClosedIn(h) == {h[i].id : i \in {j \in 1..Len(h) : h[j].change = "Close"}}

\* Before the daemon starts; the variables of sway-window-nav stay as they are
\* here.
InitDaemon ==
    /\ pc = "off"
    /\ result = <<>>
    /\ args = <<>>
    /\ cmd = <<>>
    /\ cmd_arg = <<>>
    /\ tree_node = <<>>
    /\ workspace = Empty
    /\ nodes = Empty
    /\ node = <<>>
    /\ stack = <<>>
    /\ windows = <<>>
    /\ focused = {}
    /\ focused_idx = <<>>
    /\ next_idx = <<>>
    /\ cmd_msg = <<>>
    /\ sent = <<>>
    /\ listen_pc = "start"
    /\ server_pc = "off"
    /\ prev_window = -1
    /\ curr_window = -1
    /\ event = <<>>
    /\ loaded = <<>>
    /\ focus_cmds = <<>>
    /\ first_window = -1
    /\ handled = <<>>

nav == <<pc, result, args, cmd, cmd_arg, tree_node, workspace, nodes, node,
         stack, windows, focused, focused_idx, next_idx, cmd_msg, sent>>

\* main.rs:57-64.  Connection::new() fails and listen() returns, or
\* prev_window is created as -1, curr_window is what focused_window() finds
\* (-1 when it fails), and the thread of the socket server is spawned.
ListenStart ==
    /\ listen_pc = "start"
    /\ \/ /\ listen_pc' = "done"
          /\ UNCHANGED <<server_pc, prev_window, curr_window, first_window>>
       \/ /\ prev_window' = -1
          /\ curr_window' \in {-1} \cup Windows
          /\ first_window' = curr_window'
          /\ server_pc' = "start"
          /\ listen_pc' = "subscribe"
    /\ UNCHANGED <<nav, event, loaded, focus_cmds, handled>>

\* main.rs:67.  subscribe() succeeds or fails.
Subscribe ==
    /\ listen_pc = "subscribe"
    /\ listen_pc' \in {"events", "done"}
    /\ UNCHANGED <<nav, server_pc, prev_window, curr_window, event, loaded,
                   focus_cmds, first_window, handled>>

\* main.rs:68-74.  The event loop ends: the socket server has ended
\* (strong_count < 2), the event is an error, or the stream of events is over.
EventLoopEnds ==
    /\ listen_pc = "events"
    /\ listen_pc' = "done"
    /\ UNCHANGED <<nav, server_pc, prev_window, curr_window, event, loaded,
                   focus_cmds, first_window, handled>>

\* main.rs:77-78.  A Focus event of a window that is not closed: the store.
WindowFocus ==
    /\ listen_pc = "events"
    /\ server_pc # "closed"
    /\ Len(handled) < MaxEvents
    /\ \E w \in Windows \ ClosedIn(handled) :
        /\ event' = <<w>>
        /\ handled' = Append(handled, [change |-> "Focus", id |-> w])
    /\ prev_window' = curr_window
    /\ listen_pc' = "focus_curr"
    /\ UNCHANGED <<nav, server_pc, curr_window, loaded, focus_cmds, first_window>>

\* main.rs:79.
WindowFocusCurr ==
    /\ listen_pc = "focus_curr"
    /\ curr_window' = event[1]
    /\ event' = <<>>
    /\ listen_pc' = "events"
    /\ UNCHANGED <<nav, server_pc, prev_window, loaded, focus_cmds, first_window,
                   handled>>

\* The Close event without the compare_exchange.
WindowClose_keeps_prev ==
    /\ listen_pc = "events"
    /\ server_pc # "closed"
    /\ Len(handled) < MaxEvents
    /\ \E w \in Windows \ ClosedIn(handled) :
        /\ event' = <<w>>
        /\ handled' = Append(handled, [change |-> "Close", id |-> w])
        /\ prev_window' = prev_window
    /\ listen_pc' = "close_curr"
    /\ UNCHANGED <<nav, server_pc, curr_window, loaded, focus_cmds, first_window>>

\* main.rs:82-83.  The Close event of a window that is not closed yet: the
\* compare_exchange.
WindowClose ==
    /\ listen_pc = "events"
    /\ server_pc # "closed"
    /\ Len(handled) < MaxEvents
    /\ \E w \in Windows \ ClosedIn(handled) :
        /\ event' = <<w>>
        /\ handled' = Append(handled, [change |-> "Close", id |-> w])
        /\ prev_window' = IF prev_window = w THEN -1 ELSE prev_window
    /\ listen_pc' = "close_curr"
    /\ UNCHANGED <<nav, server_pc, curr_window, loaded, focus_cmds, first_window>>

\* main.rs:84-86.
WindowCloseCurr ==
    /\ listen_pc = "close_curr"
    /\ curr_window' = IF event[1] = curr_window THEN -1 ELSE curr_window
    /\ event' = <<>>
    /\ listen_pc' = "events"
    /\ UNCHANGED <<nav, server_pc, prev_window, loaded, focus_cmds, first_window,
                   handled>>

\* main.rs:88.  Any other change of a window.
WindowOther ==
    /\ listen_pc = "events"
    /\ server_pc # "closed"
    /\ Len(handled) < MaxEvents
    /\ \E w \in Windows \ ClosedIn(handled) :
        handled' = Append(handled, [change |-> "Title", id |-> w])
    /\ UNCHANGED <<nav, listen_pc, server_pc, prev_window, curr_window, event,
                   loaded, focus_cmds, first_window>>

\* main.rs:91-92.  The Shutdown event: `close` is written to the socket.
Shutdown ==
    /\ listen_pc = "events"
    /\ server_pc # "closed"
    /\ listen_pc' = "join"
    /\ UNCHANGED <<nav, server_pc, prev_window, curr_window, event, loaded,
                   focus_cmds, first_window, handled>>

\* main.rs:93-94.  join() returns when the thread of the server has ended.
Join ==
    /\ listen_pc = "join"
    /\ server_pc = "closed"
    /\ listen_pc' = "done"
    /\ UNCHANGED <<nav, server_pc, prev_window, curr_window, event, loaded,
                   focus_cmds, first_window, handled>>

\* main.rs:16-21.  The server binds its socket and connects, or panics.
ServerStart ==
    /\ listen_pc # "done"
    /\ server_pc = "start"
    /\ server_pc' \in {"incoming", "closed"}
    /\ UNCHANGED <<nav, listen_pc, prev_window, curr_window, event, loaded,
                   focus_cmds, first_window, handled>>

\* main.rs:24-29.  A client has written `prev`: the load of prev_window.
ServerLoad ==
    /\ listen_pc # "done"
    /\ server_pc = "incoming"
    /\ Len(focus_cmds) < MaxRequests
    /\ loaded' = <<prev_window>>
    /\ server_pc' = "loaded"
    /\ UNCHANGED <<nav, listen_pc, prev_window, curr_window, event, focus_cmds,
                   first_window, handled>>

\* main.rs:29-31.  run_command() with the id that was loaded; the thread
\* panics when it fails.
ServerRunCommand ==
    /\ listen_pc # "done"
    /\ server_pc = "loaded"
    /\ focus_cmds' = Append(focus_cmds, loaded[1])
    /\ loaded' = <<>>
    /\ server_pc' \in {"incoming", "closed"}
    /\ UNCHANGED <<nav, listen_pc, prev_window, curr_window, event, first_window,
                   handled>>

\* main.rs:26 and 33-38.  The read fails, or a client has written four bytes
\* other than `prev` (the `close` of main.rs:92 is one): the thread ends.
ServerClose ==
    /\ listen_pc # "done"
    /\ server_pc = "incoming"
    /\ server_pc' = "closed"
    /\ UNCHANGED <<nav, listen_pc, prev_window, curr_window, event, loaded,
                   focus_cmds, first_window, handled>>

NextDaemon ==
    \/ ListenStart
    \/ Subscribe
    \/ EventLoopEnds
    \/ WindowFocus
    \/ WindowFocusCurr
    \/ WindowClose
    \/ WindowCloseCurr
    \/ WindowOther
    \/ Shutdown
    \/ Join
    \/ ServerStart
    \/ ServerLoad
    \/ ServerRunCommand
    \/ ServerClose

DaemonSpec == InitDaemon /\ [][NextDaemon]_vars

----------------------------------------------------------------------------
\* The properties checked.

\* The while loop of main.rs:208 has ended.
LoopDone == DOMAIN nodes # {} /\ node = <<>> /\ stack = <<>>

Children(k) == Range(nodes[k].nodes)
IsLeaf(k) == is_node_leaf(nodes[k])
Branch(p) == p \in DOMAIN nodes /\ ~IsLeaf(p)

\* a comes before b in the navigable window list.
Precedes(a, b) ==
    \E i, j \in 1..Len(windows) : i < j /\ windows[i] = a /\ windows[j] = b

\* Two different leaves that are children of one branch.
SiblingLeaves ==
    {q \in (DOMAIN nodes) \X (DOMAIN nodes) :
        /\ q[1] # q[2] /\ IsLeaf(q[1]) /\ IsLeaf(q[2])
        /\ \E p \in DOMAIN nodes : {q[1], q[2]} \subseteq Children(p)}

\* The index arithmetic of the cyclic wraparound law.
Wrap(arg, n, i) == IF arg = "Next" THEN (i + 1) % n ELSE (i - 1 + n) % n

\* C1: once the target index is computed for a window list of length n and a
\* focused index i, n >= 1, i is in 0..n-1, and the target index is
\* (i+1) mod n for Next and (i-1+n) mod n for Prev, which is in 0..n-1.
C1_CyclicIndex ==
    next_idx # <<>> =>
        LET n == Len(windows)
            i == focused_idx[1]
        IN /\ n >= 1
           /\ i \in 0..(n - 1)
           /\ next_idx[1] \in 0..(n - 1)
           /\ next_idx[1] = Wrap(cmd_arg[1], n, i)

\* Prev from the first of three windows wraps to the last one.
C1_Witness ==
    /\ Len(windows) = 3
    /\ cmd_arg = <<"Prev">>
    /\ focused_idx = <<0>>
    /\ next_idx = <<2>>

\* C2: a run on a workspace without children ends in an error and sends no
\* command, whatever the error is called.
C2_EmptyWorkspaceFails ==
    (pc = "exit" /\ DOMAIN nodes # {} /\ nodes[WsId].nodes = <<>>) =>
        (result # <<"Ok">> /\ sent = <<>>)

\* C3: of two sibling leaves, the one with the smaller y comes first in the
\* navigable window list, whatever their x, their decoration and their native
\* order.
C3_HigherSiblingFirst ==
    LoopDone =>
        \A q \in SiblingLeaves :
            nodes[q[1]].coords.y < nodes[q[2]].coords.y => Precedes(q[1], q[2])

\* a and b have the same effective content position.
SamePosition(a, b) == nodes[a].coords = nodes[b].coords

\* Every child of p is at one effective content position.
Tabbed(p) == \A a, b \in Children(p) : SamePosition(a, b)

\* C4 as stated: of two sibling leaves at the same effective content position,
\* the one with the larger decoration x comes first in the navigable window
\* list.
C4_LargerDecoFirst ==
    LoopDone =>
        \A q \in SiblingLeaves :
            (/\ SamePosition(q[1], q[2])
             /\ nodes[q[1]].deco_coords.x > nodes[q[2]].deco_coords.x)
            => Precedes(q[1], q[2])

\* C4 as amended: in a branch whose children are all at one effective content
\* position, of two leaves the one with the smaller decoration x comes first in
\* the navigable window list.
C4_SmallerDecoFirst ==
    LoopDone =>
        \A p \in DOMAIN nodes : \A a, b \in Children(p) :
            (/\ Tabbed(p) /\ IsLeaf(a) /\ IsLeaf(b)
             /\ nodes[a].deco_coords.x > nodes[b].deco_coords.x)
            => Precedes(b, a)

\* Three tabs, the native order not the order of their decoration x.
C4_Witness ==
    /\ LoopDone
    /\ \E p \in DOMAIN nodes :
        /\ Tabbed(p)
        /\ Len(nodes[p].nodes) = 3
        /\ \A a \in Children(p) : IsLeaf(a)
        /\ nodes[nodes[p].nodes[1]].deco_coords.x < nodes[nodes[p].nodes[2]].deco_coords.x
        /\ nodes[nodes[p].nodes[3]].deco_coords.x < nodes[nodes[p].nodes[2]].deco_coords.x

\* The Vec on top of the stack is the sorted children list of p, as pushed by
\* main.rs:224 and before any child is popped off it.
SortedChildrenOf(p) ==
    /\ Branch(p)
    /\ stack # <<>>
    /\ Len(Last(stack)) = Len(nodes[p].nodes)
    /\ Range(Last(stack)) = Children(p)

\* C5: in the sorted children list of a branch, of two children at the same
\* effective content position the one with the larger decoration x is placed
\* first.
C5_SortedDescendingDeco ==
    \A p \in DOMAIN nodes :
        SortedChildrenOf(p) =>
            \A i, j \in 1..Len(Last(stack)) :
                (/\ SamePosition(Last(stack)[i], Last(stack)[j])
                 /\ nodes[Last(stack)[i]].deco_coords.x > nodes[Last(stack)[j]].deco_coords.x)
                => i < j

\* In a branch whose children are all at one effective content position the
\* sorted children list is in descending decoration-x order.
TabbedSortedDescendingDeco ==
    \A p \in DOMAIN nodes :
        (SortedChildrenOf(p) /\ Tabbed(p)) =>
            \A i, j \in 1..Len(Last(stack)) :
                nodes[Last(stack)[i]].deco_coords.x > nodes[Last(stack)[j]].deco_coords.x
                => i < j

\* The windows in the list, left to right.
XOf(i) == nodes[windows[i]].coords.x

\* The children of the workspace are leaves at one y and at different x.
Row ==
    /\ \A a \in Children(WsId) : IsLeaf(a)
    /\ \A a, b \in Children(WsId) :
        /\ nodes[a].coords.y = nodes[b].coords.y
        /\ a # b => nodes[a].coords.x # nodes[b].coords.x

\* C6: the navigable window list of a row is its windows by ascending x; with
\* the middle one of three focused, Next targets the one with the largest x
\* and Prev the one with the smallest x, and `focus` names that window's id.
C6_RowLeftToRight ==
    (LoopDone /\ Branch(WsId) /\ Row) =>
        /\ Range(windows) = Children(WsId)
        /\ Len(windows) = Len(nodes[WsId].nodes)
        /\ \A i, j \in 1..Len(windows) : i < j => XOf(i) < XOf(j)
        /\ (Len(windows) = 3 /\ focused_idx = <<1>> /\ cmd_msg # <<>>) =>
            LET t == IF cmd_arg = <<"Next">>
                     THEN CHOOSE a \in Children(WsId) :
                            \A b \in Children(WsId) : nodes[b].coords.x <= nodes[a].coords.x
                     ELSE CHOOSE a \in Children(WsId) :
                            \A b \in Children(WsId) : nodes[a].coords.x <= nodes[b].coords.x
            IN /\ windows[next_idx[1] + 1] = t
               /\ cmd = <<"Focus">> => cmd_msg = <<<<"[con_id=", nodes[t].id, "] focus">>>>

\* `focus next` with the middle of three windows focused, the native order
\* being right to left.
C6_Witness ==
    /\ LoopDone /\ Branch(WsId) /\ Row
    /\ Len(windows) = 3
    /\ \A i \in 1..2 :
        nodes[nodes[WsId].nodes[i]].coords.x > nodes[nodes[WsId].nodes[i + 1]].coords.x
    /\ focused_idx = <<1>>
    /\ cmd = <<"Focus">> /\ cmd_arg = <<"Next">>
    /\ sent = <<<<"[con_id=", windows[3], "] focus">>>>

\* C7: the one command string handed to run_command names the id T of the
\* target window, the window at the wrapped index: `[con_id=T] focus` for
\* Focus and `swap container with con_id T` for Move.
C7_CommandCarriesTarget ==
    \A m \in Range(cmd_msg) \cup Range(sent) :
        LET T == nodes[windows[Wrap(cmd_arg[1], Len(windows), focused_idx[1]) + 1]].id
        IN /\ Len(sent) <= 1
           /\ cmd = <<"Focus">> => m = <<"[con_id=", T, "] focus">>
           /\ cmd = <<"Move">> => m = <<"swap container with con_id ", T>>

\* `move prev` has sent the swap with a window that is not the focused one.
C7_Witness ==
    /\ cmd = <<"Move">> /\ cmd_arg = <<"Prev">>
    /\ Len(windows) = 3
    /\ next_idx # focused_idx
    /\ sent = <<<<"swap container with con_id ", nodes[windows[next_idx[1] + 1]].id>>>>

\* C8: for the list and the focused index of the run, Next then Prev and Prev
\* then Next return the focused index, and so does the other direction
\* applied to the target index the run computed.
C8_RoundTrip ==
    next_idx # <<>> =>
        LET n == Len(windows)
            i == focused_idx[1]
            back == IF cmd_arg = <<"Next">> THEN "Prev" ELSE "Next"
        IN /\ next_idx_of("Prev", n, next_idx_of("Next", n, i)) = i
           /\ next_idx_of("Next", n, next_idx_of("Prev", n, i)) = i
           /\ next_idx_of(back, n, next_idx[1]) = i

\* Next from the last of three windows has wrapped to the first one.
C8_Witness ==
    /\ Len(windows) = 3
    /\ cmd_arg = <<"Next">>
    /\ focused_idx = <<2>>
    /\ next_idx = <<0>>

\* The leaves below the raw nodes ks of the snapshot R, by a depth-first
\* traversal in native order, the children of a node being its tiled children
\* followed by its floating children.
RECURSIVE RawLeaves(_, _)
RawLeaves(R, ks) ==
    IF ks = <<>> THEN <<>>
    ELSE LET c == R[Head(ks)].nodes \o R[Head(ks)].floating_nodes
         IN (IF c = <<>> THEN <<Head(ks)>> ELSE RawLeaves(R, c)) \o RawLeaves(R, Tail(ks))

\* The leaves below the Nodes ks of the arena N, by the same traversal.
RECURSIVE NodeLeaves(_, _)
NodeLeaves(N, ks) ==
    IF ks = <<>> THEN <<>>
    ELSE LET c == N[Head(ks)].nodes
         IN (IF c = <<>> THEN <<Head(ks)>> ELSE NodeLeaves(N, c)) \o NodeLeaves(N, Tail(ks))

\* w holds the elements of the sequence l, each once.
PermutationOf(w, l) ==
    /\ Len(w) = Len(l)
    /\ Range(w) = Range(l)
    /\ Cardinality(Range(w)) = Len(w)

\* C10: Node::from keeps the leaves of the snapshot's workspace, tiled and
\* floating, and when the loop has ended the navigable window list holds
\* exactly the leaves of an unsorted depth-first traversal, each once.
C10_ExactlyTheLeaves ==
    [][/\ pc = "convert" =>
            NodeLeaves(nodes', <<WsId>>) = RawLeaves(workspace, <<WsId>>)
       /\ LoopDone' =>
            /\ PermutationOf(windows', NodeLeaves(nodes', <<WsId>>))
            /\ \A k \in Range(windows') : nodes'[k].nodes = <<>>]_vars

\* The list is complete for a workspace with a floating window (the child
\* with the smaller id that follows a tiled one) and a container.
C10_Witness ==
    /\ LoopDone
    /\ Len(nodes[WsId].nodes) = 2
    /\ nodes[WsId].nodes[1] > nodes[WsId].nodes[2]
    /\ \E p \in Children(WsId) : Branch(p)
    /\ Len(windows) = 2

\* The error texts of the run, by the names the design gives them.
NoFocusedWindow == "Could not find the focused window"
NoFocusedPath == "Could not find a focused output or workspace."
FocusedChildMissing == "Could not find the focused workspace."

\* C11: when the loop has ended and no window of the navigable window list is
\* focused, the run ends with the NoFocusedWindow error, no target index and no
\* command string are computed, and nothing is sent.
C11_NoFocusedWindow ==
    (pc \in {"run_command", "exit"} /\ LoopDone /\ focused \cap Range(windows) = {}) =>
        /\ pc = "exit"
        /\ result = <<NoFocusedWindow>>
        /\ focused_idx = <<>> /\ next_idx = <<>> /\ cmd_msg = <<>>
        /\ sent = <<>>

\* The focus is on a container of two windows; the run has ended in the error.
C11_Witness ==
    /\ pc = "exit" /\ LoopDone
    /\ \E p \in focused : Branch(p) /\ p # WsId
    /\ Len(windows) >= 2
    /\ result = <<NoFocusedWindow>>
    /\ sent = <<>>

\* C12: the locator starts at the root; a hop from a node that is not a
\* workspace fails with NoFocusedPath when the node's focus list is empty, fails
\* with FocusedChildMissing when no tiled child has the first focus id, and
\* otherwise moves to the tiled child with that id; the locator is left only
\* at a workspace; both failures end the run with nothing sent.
C12_LocatorHops ==
    [][/\ (pc = "get_tree" /\ pc' = "locate") => tree_node'[1].node_type = "Root"
       /\ (pc = "locate" /\ pc' = "convert") => tree_node[1].node_type = "Workspace"
       /\ (pc = "locate" /\ tree_node[1].node_type # "Workspace") =>
            LET n == tree_node[1]
                kids == {n.nodes[i] : i \in 1..Len(n.nodes)}
            IN /\ n.focus = <<>> =>
                    pc' = "exit" /\ result' = <<NoFocusedPath>> /\ sent' = <<>>
               /\ (n.focus # <<>> /\ \A c \in kids : c.id # n.focus[1]) =>
                    pc' = "exit" /\ result' = <<FocusedChildMissing>> /\ sent' = <<>>
               /\ (n.focus # <<>> /\ \E c \in kids : c.id = n.focus[1]) =>
                    /\ pc' = "locate" /\ result' = <<>>
                    /\ tree_node'[1] \in kids
                    /\ tree_node'[1].id = n.focus[1]
      ]_vars

\* The second hop has failed: the focused output has a workspace, but its first
\* focus id is not the id of that workspace.
C12_Witness ==
    /\ pc = "exit"
    /\ result = <<FocusedChildMissing>>
    /\ tree_node # <<>>
    /\ tree_node[1].node_type = "Output"
    /\ tree_node[1].nodes # <<>>
    /\ sent = <<>>

\* C13: a step never starts from the end of the run; run_command is called
\* only from the emit step, once, with nothing sent before and after the tree
\* was read and converted, and its outcome is the outcome of the run; a run
\* that ends at any other step ends in an error with nothing sent.
C13_SingleShot ==
    [][/\ pc # "exit"
       /\ sent' # sent =>
            /\ pc = "run_command" /\ pc' = "exit"
            /\ sent = <<>> /\ Len(sent') = 1
            /\ DOMAIN nodes # {}
       /\ (pc' = "exit" /\ pc = "run_command") =>
            /\ Len(sent') = 1
            /\ result' \in {<<"Ok">>, <<"swayipc::Error">>}
       /\ (pc' = "exit" /\ pc # "run_command") =>
            /\ sent' = <<>>
            /\ result' # <<>> /\ result' # <<"Ok">>
      ]_vars

\* The one run_command call has failed, and the run has ended with its error.
C13_Witness ==
    /\ pc = "exit"
    /\ result = <<"swayipc::Error">>
    /\ Len(sent) = 1

\* The keys the comparator reads, and its answer for two Nodes of the arena.
Key(a) == <<nodes[a].coords.x, nodes[a].coords.y, nodes[a].deco_coords.x>>
Compare(a, b) == Node_asc_above_or_right_of(nodes[a], nodes[b])

\* C14: on the children of a branch the comparator is a strict total order: of
\* two children with different keys exactly one is Less than the other, and
\* Less is transitive.
C14_StrictTotalOrder ==
    \A p \in DOMAIN nodes : \A a, b, c \in Children(p) :
        /\ Key(a) # Key(b) => ((Compare(a, b) = "Less") # (Compare(b, a) = "Less"))
        /\ (Compare(a, b) = "Less" /\ Compare(b, c) = "Less") => Compare(a, c) = "Less"

\* The loop builds the list that Traverse gives for the workspace.
LoopIsTraverse == LoopDone => windows = Traverse(nodes, WsId)

\* The orders of the elements of the sequence s of different elements.
NativeOrders(s) ==
    {q \in [1..Len(s) -> Range(s)] : \A e \in Range(s) : \E i \in 1..Len(s) : q[i] = e}

\* C15: the navigable window list of the tree is also the list of every tree
\* that differs from it by the native order of the children of one branch,
\* when those children have different keys.
C15_NativeOrderIndependent ==
    LoopDone =>
        \A p \in DOMAIN nodes :
            (Branch(p) /\ \A a, b \in Children(p) : a # b => Key(a) # Key(b)) =>
                \A q \in NativeOrders(nodes[p].nodes) :
                    Traverse([nodes EXCEPT ![p].nodes = q], WsId) = windows

\* The leaves below the Node k, and the places they have in the list.
LeavesBelow(k) == Range(NodeLeaves(nodes, <<k>>))
Places(k) == {i \in 1..Len(windows) : windows[i] \in LeavesBelow(k)}

\* The leaves below k are one block of the list.
Contiguous(k) ==
    \A i, j \in Places(k) : \A m \in i..j : m \in Places(k)

\* The block of a is before the block of b.
BlockBefore(a, b) == \A i \in Places(a), j \in Places(b) : i < j

\* C16: the leaves below every branch are one block of the navigable window
\* list, and the blocks of two children of a branch are in the order the
\* comparator gives the two, as the traversal uses it: the sorted list is
\* visited from its back, so the child that is Less comes after the other.
C16_BlocksInComparatorOrder ==
    LoopDone =>
        /\ \A p \in DOMAIN nodes : Contiguous(p)
        /\ \A p \in DOMAIN nodes : \A a, b \in Children(p) :
                Compare(a, b) = "Less" => BlockBefore(b, a)

\* The leaves below every branch are one block of the list.
BlocksContiguous == LoopDone => \A p \in DOMAIN nodes : Contiguous(p)

\* C17: once the traversal loop is entered it is left, with the current-node
\* slot and the stack empty, and the run never panics: the unreachable!() of
\* main.rs:237 is not taken.
C17_LoopTerminates ==
    /\ (pc = "traverse") ~> (pc \in {"run_command", "exit"} /\ node = <<>> /\ stack = <<>>)
    /\ [](result # <<"panic">>)

\* The loop has ended for a tree three levels deep, after two frames were on
\* the stack at once.
C17_Witness ==
    /\ pc \in {"run_command", "exit"}
    /\ node = <<>> /\ stack = <<>>
    /\ \E p, q \in DOMAIN nodes : Branch(p) /\ Branch(q) /\ q \in Children(p)
    /\ windows # <<>>

\* C18: when the loop finds an exhausted frame on top of the stack, the window
\* list is not empty; the list is not empty when the loop has ended; the
\* focused index and the target index are indices of the list; and the run
\* never panics.
C18_AssertHolds ==
    /\ (pc = "traverse" /\ node = <<>> /\ stack # <<>> /\ Last(stack) = <<>>) => windows # <<>>
    /\ LoopDone => windows # <<>>
    /\ focused_idx # <<>> => focused_idx[1] \in 0..(Len(windows) - 1)
    /\ next_idx # <<>> => next_idx[1] \in 0..(Len(windows) - 1)
    /\ result # <<"panic">>

\* The exhausted frame of a nested container is on top of the stack, above the
\* frame of its parent, and the windows of the container are in the list.
C18_Witness ==
    /\ pc = "traverse" /\ node = <<>>
    /\ Len(stack) = 2
    /\ Last(stack) = <<>>
    /\ Len(windows) = 2

\* The last index of the history h with a Focus event before index n.
LastFocusBefore(h, n) ==
    LET F == {i \in 1..(n - 1) : h[i].change = "Focus"}
    IN IF F = {} THEN 0 ELSE CHOOSE i \in F : \A j \in F : j <= i

\* The window that was current just before the latest Focus event of the
\* history h, by the events alone: the window of the Focus event before it, or
\* the window focused when the daemon started; -1 when there is none.
CurrentBeforeLatestFocus(h, first) ==
    LET l == LastFocusBefore(h, Len(h) + 1)
        e == LastFocusBefore(h, l)
    IN IF l = 0 THEN -1 ELSE IF e = 0 THEN first ELSE h[e].id

\* What a `prev` request has to load after the history h.
ExpectedPrev(h, first) ==
    LET w == CurrentBeforeLatestFocus(h, first)
    IN IF w \in ClosedIn(h) THEN -1 ELSE w

\* C19: the value the socket server loads for a `prev` request is the window
\* that was current just before the latest Focus event handled so far when
\* that window's Close event has not been handled, and -1 otherwise; it is
\* never a window whose Close event has been handled, and so is prev_window
\* whenever the server may load it.
C19_PrevWindow ==
    [][/\ (server_pc = "incoming" /\ server_pc' = "loaded") =>
            /\ loaded' = <<ExpectedPrev(handled, first_window)>>
            /\ loaded'[1] \notin ClosedIn(handled)
       /\ prev_window' = ExpectedPrev(handled', first_window')
      ]_vars

\* The window current before the latest Focus event has been closed since, and
\* a request has loaded -1 and focused it.
C19_Witness ==
    /\ Len(handled) = 3
    /\ handled[1].change = "Focus" /\ handled[2].change = "Focus"
    /\ handled[3] = [change |-> "Close", id |-> handled[1].id]
    /\ handled[1].id # handled[2].id
    /\ Len(focus_cmds) = 2
    /\ focus_cmds[1] = handled[1].id
    /\ focus_cmds[2] = -1

====
